---------------------------- MODULE Spec2Model ----------------------------
(***************************************************************************)
(* Model of argon2-native (src/argon2.ts): the three public operations     *)
(* hash, verify and needsRehash over the PHC string codec, the random      *)
(* source and the Argon2 primitive.  Calls are asynchronous: a call is     *)
(* suspended while it awaits generateSalt or the primitive, and any number *)
(* of calls may be in flight at once.                                      *)
(*                                                                         *)
(* Strings are sequences of one-character strings, byte sequences are      *)
(* sequences of 0..255.  JavaScript numbers are pairs of limbs in base     *)
(* 2^24 (hi * 2^24 + lo) so that 2^32 - 1 and Number.MAX_SAFE_INTEGER keep *)
(* their values.                                                           *)
(***************************************************************************)
EXTENDS Integers, Sequences, FiniteSets, TLC

\* ------------------------------------------------------------------ bounds

\* The calls of a run over the whole of the inputs.
MaxCalls == 2

\* The calls of a run over the few inputs of NextThree.
MaxCallsThree == 3

\* A sequence given by a function on 1..n, as the tuple of its values.
AsTuple(f) == f \o <<>>

\* ------------------------------------------------------------- JS numbers

Limb == 2^24

Num(h, l) == [hi |-> h, lo |-> l]

N(x) == Num(0, x)

NumGT(a, b) == a.hi > b.hi \/ (a.hi = b.hi /\ a.lo > b.lo)

\* 2 ** 32 - 1
MaxUint32 == Num(255, Limb - 1)

\* 2 ** 24 - 1
MaxUint24 == Num(0, Limb - 1)

\* Number.MAX_SAFE_INTEGER, 2 ** 53 - 1
MaxSafeInteger == Num(2^29 - 1, Limb - 1)

Digits == <<"0", "1", "2", "3", "4", "5", "6", "7", "8", "9">>

DigitSet == {Digits[i] : i \in 1..10}

DigitIndex == [c \in DigitSet |-> (CHOOSE i \in 1..10 : Digits[i] = c) - 1]

IsDigit(c) == c \in DigitSet

DigitVal(c) == DigitIndex[c]

\* Number.prototype.toString() of a non-negative integer: decimal, no sign,
\* no leading zero.
RECURSIVE NumToString(_)
NumToString(n) ==
    LET r == n.hi % 10
        t == (r * Limb) + n.lo
        q == Num(n.hi \div 10, t \div 10)
        d == Digits[(t % 10) + 1]
    IN  IF q.hi = 0 /\ q.lo = 0 THEN <<d>> ELSE Append(NumToString(q), d)

\* parseInt(s, 10) of a string of decimal digits.
RECURSIVE ParseDecimal(_)
ParseDecimal(s) ==
    IF Len(s) = 0 THEN N(0)
    ELSE LET n == ParseDecimal(SubSeq(s, 1, Len(s) - 1))
             l == (n.lo * 10) + DigitVal(s[Len(s)])
         IN  Num((n.hi * 10) + (l \div Limb), l % Limb)

\* /^((-)?[1-9]\d*|0)$/ restricted to unsigned values: a canonical decimal.
IsDecimal(s) ==
    /\ Len(s) > 0
    /\ \A i \in 1..Len(s) : IsDigit(s[i])
    /\ (s[1] = "0" => Len(s) = 1)

\* ------------------------------------------------------------------ base64

B64Chars ==
    <<"A", "B", "C", "D", "E", "F", "G", "H", "I", "J", "K", "L", "M",
      "N", "O", "P", "Q", "R", "S", "T", "U", "V", "W", "X", "Y", "Z",
      "a", "b", "c", "d", "e", "f", "g", "h", "i", "j", "k", "l", "m",
      "n", "o", "p", "q", "r", "s", "t", "u", "v", "w", "x", "y", "z",
      "0", "1", "2", "3", "4", "5", "6", "7", "8", "9", "+", "/">>

B64Set == {B64Chars[i] : i \in 1..64}

B64Index == [c \in B64Set |-> (CHOOSE i \in 1..64 : B64Chars[i] = c) - 1]

IsB64Digit(c) == c \in B64Set

B64Val(c) == B64Index[c]

\* The k-th byte of b, 0 past its end.
ByteAt(b, k) == IF k <= Len(b) THEN b[k] ELSE 0

\* Buffer.prototype.toString('base64'): standard alphabet, '=' padding.
ToBase64(b) ==
    AsTuple([i \in 1..(4 * ((Len(b) + 2) \div 3)) |->
        LET q == (i - 1) \div 4
            r == (i - 1) % 4
            b1 == ByteAt(b, (3 * q) + 1)
            b2 == ByteAt(b, (3 * q) + 2)
            b3 == ByteAt(b, (3 * q) + 3)
        IN  IF r = 0 THEN B64Chars[(b1 \div 4) + 1]
            ELSE IF r = 1 THEN B64Chars[((b1 % 4) * 16) + (b2 \div 16) + 1]
            ELSE IF r = 2 THEN
                IF (3 * q) + 2 > Len(b) THEN "="
                ELSE B64Chars[((b2 % 16) * 4) + (b3 \div 64) + 1]
            ELSE IF (3 * q) + 3 > Len(b) THEN "="
            ELSE B64Chars[(b3 % 64) + 1]])

\* The k-th smallest member of a set of numbers.
Nth(S, k) == CHOOSE i \in S : Cardinality({j \in S : j < i}) = k - 1

\* The length of the part of s before its first occurrence of c.
PrefixLength(s, c) ==
    IF \E i \in 1..Len(s) : s[i] = c
    THEN (CHOOSE i \in 1..Len(s) :
              s[i] = c /\ \A k \in 1..(i - 1) : s[k] # c) - 1
    ELSE Len(s)

\* String.prototype.split('=')[0]: the part before the first '='.
BeforePadding(s) == SubSeq(s, 1, PrefixLength(s, "="))

\* The base64 digits among t[lo..hi], in order; other characters are
\* skipped by the decoder.
RECURSIVE KeptDigits(_, _, _)
KeptDigits(t, lo, hi) ==
    IF lo > hi THEN <<>>
    ELSE IF lo = hi
    THEN IF IsB64Digit(t[lo]) THEN <<B64Val(t[lo])>> ELSE <<>>
    ELSE KeptDigits(t, lo, (lo + hi) \div 2)
           \o KeptDigits(t, ((lo + hi) \div 2) + 1, hi)

\* The base64 digits of a string, up to its first '='.
B64Digits(s) == KeptDigits(s, 1, PrefixLength(s, "="))

\* Every four digits give three bytes; two or three left over give one or
\* two bytes, one left over gives none.
DecodeGroups(d) ==
    AsTuple([j \in 1..((3 * Len(d)) \div 4) |->
        LET q == (j - 1) \div 3
            r == (j - 1) % 3
        IN  IF r = 0 THEN (d[(4 * q) + 1] * 4) + (d[(4 * q) + 2] \div 16)
            ELSE IF r = 1
            THEN ((d[(4 * q) + 2] % 16) * 16) + (d[(4 * q) + 3] \div 4)
            ELSE ((d[(4 * q) + 3] % 4) * 64) + d[(4 * q) + 4]])

\* Buffer.from(s, 'base64'): padding is optional.
FromBase64(s) == DecodeGroups(B64Digits(s))


\* --------------------------------------------------------- optional values

\* undefined / an absent key
None == [some |-> FALSE]

Some(x) == [some |-> TRUE, v |-> x]

\* ------------------------------------------------------------ PHC codec
\* (@phc/format: serialize and deserialize)

Argon2i == <<"a", "r", "g", "o", "n", "2", "i">>

Argon2d == <<"a", "r", "g", "o", "n", "2", "d">>

Argon2id == <<"a", "r", "g", "o", "n", "2", "i", "d">>

KeyM == <<"m">>

KeyT == <<"t">>

KeyP == <<"p">>

KeyData == <<"d", "a", "t", "a">>

\* A parameter value: a number, a Buffer or a string.
NumVal(n) == [k |-> "num", n |-> n, b |-> <<>>, s |-> <<>>]

BufVal(b) == [k |-> "buf", n |-> N(0), b |-> b, s |-> <<>>]

StrVal(s) == [k |-> "str", n |-> N(0), b |-> <<>>, s |-> s]

\* Array.prototype.join
RECURSIVE Join(_, _)
Join(parts, sep) ==
    IF Len(parts) = 0 THEN <<>>
    ELSE IF Len(parts) = 1 THEN parts[1]
    ELSE parts[1] \o sep \o Join(Tail(parts), sep)

\* String.prototype.split on a one-character separator: the parts between
\* the separators, in order.
Split(s, sep) ==
    LET at == {i \in 1..Len(s) : s[i] = sep} \cup {}
        n == Cardinality(at)
    IN  AsTuple([k \in 1..(n + 1) |->
            SubSeq(s,
                   IF k = 1 THEN 1 ELSE Nth(at, k - 1) + 1,
                   IF k = n + 1 THEN Len(s) ELSE Nth(at, k) - 1)])

\* A parameter value as serialize writes it: a number in decimal, a Buffer
\* in base64 without padding, a string as it is.
ValueToString(val) ==
    IF val.k = "num" THEN NumToString(val.n)
    ELSE IF val.k = "buf" THEN BeforePadding(ToBase64(val.b))
    ELSE val.s

\* serialize({id, version, params, salt, hash}): the fields joined by '$',
\* each optional field written only when it is given.
Serialize(opts) ==
    LET ver == IF opts.version.some
               THEN <<<<"v", "=">> \o NumToString(opts.version.v)>> ELSE <<>>
        par == IF opts.params.some
               THEN <<Join([i \in 1..Len(opts.params.v) |->
                              opts.params.v[i][1] \o <<"=">>
                                \o ValueToString(opts.params.v[i][2])],
                           <<",">>)>>
               ELSE <<>>
        slt == IF opts.salt.some
               THEN <<BeforePadding(ToBase64(opts.salt.v))>> ELSE <<>>
        hsh == IF opts.salt.some /\ opts.hash.some
               THEN <<BeforePadding(ToBase64(opts.hash.v))>> ELSE <<>>
    IN  Join(<<<<>>, opts.id>> \o ver \o par \o slt \o hsh, <<"$">>)

IsLower(c) ==
    c \in {"a", "b", "c", "d", "e", "f", "g", "h", "i", "j", "k", "l", "m",
           "n", "o", "p", "q", "r", "s", "t", "u", "v", "w", "x", "y", "z"}

\* /^[a-z0-9-]{1,32}$/: an identifier or a parameter name
IsName(s) ==
    /\ Len(s) \in 1..32
    /\ \A i \in 1..Len(s) : IsLower(s[i]) \/ IsDigit(s[i]) \/ s[i] = "-"

\* /^[a-zA-Z0-9/+.-]+$/: a parameter value
IsValue(s) ==
    /\ Len(s) > 0
    /\ \A i \in 1..Len(s) : IsB64Digit(s[i]) \/ s[i] = "." \/ s[i] = "-"

\* /^([a-zA-Z0-9/+.-]+|)$/: a salt or hash field
IsB64Field(s) == Len(s) = 0 \/ IsValue(s)

\* /^v=(\d+)$/: a version field
IsVersionField(s) ==
    /\ Len(s) > 2
    /\ s[1] = "v" /\ s[2] = "="
    /\ \A i \in 3..Len(s) : IsDigit(s[i])

\* One key=value entry of the parameter block; m, t and p are read as
\* decimal numbers, data stays the base64 text it is.
ParseParam(entry) ==
    LET kv == Split(entry, "=")
        key == kv[1]
        val == IF Len(kv) > 1 THEN kv[2] ELSE <<>>
    IN  <<key, IF key \in {KeyM, KeyT, KeyP} /\ IsDecimal(val)
               THEN NumVal(ParseDecimal(val)) ELSE StrVal(val)>>

ParamEntryOk(entry) ==
    LET kv == Split(entry, "=")
    IN  Len(kv) = 2 /\ IsName(kv[1]) /\ IsValue(kv[2])

ParseFailure ==
    [ok |-> FALSE, id |-> <<>>, version |-> None, params |-> None,
     salt |-> None, hash |-> None]

\* deserialize(phcstr): the record of the fields the string holds, or a
\* failure (a thrown TypeError) for a string that is not of the format.
Deserialize(phcstr) ==
    IF Len(phcstr) = 0 \/ phcstr[1] # "$" THEN ParseFailure
    ELSE
    LET fields == Tail(Split(phcstr, "$"))
        hasVer == Len(fields) > 1 /\ IsVersionField(fields[2])
        maxf == IF hasVer THEN 5 ELSE 4
        id == fields[1]
        rest == SubSeq(fields, IF hasVer THEN 3 ELSE 2, Len(fields))
        n == Len(rest)
        hasSalt == n > 0 /\ IsB64Field(rest[n])
        hasHash == hasSalt /\ n > 1 /\ IsB64Field(rest[n - 1])
        left == n - (IF hasHash THEN 2 ELSE IF hasSalt THEN 1 ELSE 0)
        entries == IF left > 0 THEN Split(rest[left], ",") ELSE <<>>
    IN  IF \/ Len(fields) > maxf
           \/ ~IsName(id)
           \/ left > 1
           \/ \E i \in 1..Len(entries) : ~ParamEntryOk(entries[i])
        THEN ParseFailure
        ELSE [ok |-> TRUE,
              id |-> id,
              version |-> IF hasVer
                          THEN Some(ParseDecimal(SubSeq(fields[2], 3, Len(fields[2]))))
                          ELSE None,
              params |-> IF left > 0
                         THEN Some([i \in 1..Len(entries) |-> ParseParam(entries[i])])
                         ELSE None,
              salt |-> IF hasHash THEN Some(FromBase64(rest[n - 1]))
                       ELSE IF hasSalt THEN Some(FromBase64(rest[n]))
                       ELSE None,
              hash |-> IF hasHash THEN Some(FromBase64(rest[n])) ELSE None]

\* params[key], undefined when the key is absent.
ParamGet(params, key) ==
    IF \E i \in 1..Len(params) : params[i][1] = key
    THEN Some(params[CHOOSE i \in 1..Len(params) :
                       params[i][1] = key
                       /\ \A j \in (i + 1)..Len(params) : params[j][1] # key][2])
    ELSE None


\* ------------------------------------------------------ Argon2 primitive
\* (node:crypto argon2, promisified)

MixPrime == 16777213

Mix(f, x) == ((f * 101) + x + 1) % MixPrime

\* The sum over i in lo..hi of (xs[i] + 1) * (i + 2)^2: each byte weighted
\* by its place.
RECURSIVE WeightedSum(_, _, _)
WeightedSum(xs, lo, hi) ==
    IF lo > hi THEN 0
    ELSE IF lo = hi THEN (xs[lo] + 1) * (lo + 2) * (lo + 2)
    ELSE WeightedSum(xs, lo, (lo + hi) \div 2)
           + WeightedSum(xs, ((lo + hi) \div 2) + 1, hi)

\* A byte sequence mixed in: its length, then its bytes.
MixSeq(f, xs) == Mix(Mix(f, Len(xs)), WeightedSum(xs, 1, Len(xs)) % MixPrime)

MixNum(f, n) == Mix(Mix(Mix(f, n.hi \div Limb), n.hi % Limb), n.lo)

AlgorithmIndex(algorithm) ==
    IF algorithm = Argon2d THEN 0 ELSE IF algorithm = Argon2i THEN 1 ELSE 2

\* An absent secret is the empty secret.
SecretBytes(secret) == IF secret.some THEN secret.v ELSE <<>>

\* The digest of every input of the primitive: a stand-in for Argon2's
\* compression, deterministic and (over the inputs of the model) different
\* for different inputs.
Fingerprint(algorithm, parameters) ==
    LET f1 == Mix(7, AlgorithmIndex(algorithm))
        f2 == MixSeq(f1, parameters.message)
        f3 == MixSeq(f2, parameters.nonce)
        f4 == MixNum(f3, parameters.parallelism.v)
        f5 == MixNum(f4, parameters.tagLength)
        f6 == MixNum(f5, parameters.memory.v)
        f7 == MixNum(f6, parameters.passes.v)
        f8 == MixSeq(f7, SecretBytes(parameters.secret))
    IN  MixSeq(f8, parameters.associatedData)

\* tagLength bytes spread from the fingerprint; the first three hold it.
Tag(f, len) ==
    AsTuple([i \in 1..len |->
              (IF i % 3 = 1 THEN (f \div 256) + (7 * i)
               ELSE IF i % 3 = 2 THEN (f \div 65536) + (7 * i)
               ELSE f + (7 * i)) % 256])

\* argon2(algorithm, parameters): the tag, or a failure when a cost
\* parameter is not a number (the primitive validates its arguments).
Argon2(algorithm, parameters) ==
    IF \/ ~parameters.parallelism.some
       \/ ~parameters.memory.some
       \/ ~parameters.passes.some
    THEN [ok |-> FALSE, tag |-> <<>>]
    ELSE [ok |-> TRUE,
          tag |-> Tag(Fingerprint(algorithm, parameters),
                      parameters.tagLength.lo)]

NoParameters ==
    [message |-> <<>>, nonce |-> <<>>, parallelism |-> None,
     tagLength |-> N(0), memory |-> None, passes |-> None,
     secret |-> None, associatedData |-> <<>>]

\* generateSalt(size): size bytes drawn by the random source, which the
\* model draws from a seed.
RandomBytes(size, seed) ==
    AsTuple([i \in 1..size |-> ((seed * i * 37) + seed) % 256])

\* timingSafeEqual(a, b): a RangeError when the lengths differ.
TimingSafeEqual(a, b) ==
    [ok |-> Len(a) = Len(b), equal |-> Len(a) = Len(b) /\ a = b]

\* ------------------------------------------------------------- options

\* The lengths given to generateSalt and kept as defaults.
SaltLength == 16

DefaultHashLength == 32

DefaultTimeCost == 3

DefaultMemoryCost == 65536

DefaultParallelism == 4

NoOptions ==
    [hashLength |-> None, timeCost |-> None, memoryCost |-> None,
     parallelism |-> None, type |-> None, salt |-> None,
     associatedData |-> None, secret |-> None, raw |-> None]

defaults ==
    [NoOptions EXCEPT !.hashLength = Some(N(DefaultHashLength)),
                      !.timeCost = Some(N(DefaultTimeCost)),
                      !.memoryCost = Some(N(DefaultMemoryCost)),
                      !.parallelism = Some(N(DefaultParallelism)),
                      !.type = Some(Argon2id)]

\* { ...defaults, ...options }
Overlay(base, options) ==
    [k \in DOMAIN base |-> IF options[k].some THEN options[k] ELSE base[k]]

types == {Argon2i, Argon2d, Argon2id}

\* A test of the id that lets every name through.
isAnyType(str) == Len(str) > 0

isArgon2Type(str) == str \in types

\* ------------------------------------------------------------- results

Pending == [kind |-> "pending", b |-> <<>>, s |-> <<>>, ok |-> FALSE, err |-> ""]

Bytes(b) == [Pending EXCEPT !.kind = "bytes", !.b = b]

String(s) == [Pending EXCEPT !.kind = "string", !.s = s]

Bool(v) == [Pending EXCEPT !.kind = "boolean", !.ok = v]

Error(e) == [Pending EXCEPT !.kind = "error", !.err = e]


\* ------------------------------------------------------ hash (237-296)

RangeErrors ==
    {"Hash length is too large", "Memory cost is too large",
     "Time cost is too large", "Parallelism is too large"}

\* The range checks without the one on the time cost.
ValidateWithoutTimeCost(rest) ==
    IF NumGT(rest.hashLength.v, MaxUint32) THEN "Hash length is too large"
    ELSE IF NumGT(rest.memoryCost.v, MaxUint32) THEN "Memory cost is too large"
    ELSE IF NumGT(rest.parallelism.v, MaxUint24) THEN "Parallelism is too large"
    ELSE ""

\* The four range checks, in the order of the code; "" when all pass.
Validate(rest) ==
    IF NumGT(rest.hashLength.v, MaxUint32) THEN "Hash length is too large"
    ELSE IF NumGT(rest.memoryCost.v, MaxUint32) THEN "Memory cost is too large"
    ELSE IF NumGT(rest.timeCost.v, MaxUint32) THEN "Time cost is too large"
    ELSE IF NumGT(rest.parallelism.v, MaxUint24) THEN "Parallelism is too large"
    ELSE ""

\* The arguments of the primitive with the caller's secret left out.
HashParametersWithoutSecret(password, salt, rest) ==
    [message |-> password,
     nonce |-> salt,
     parallelism |-> rest.parallelism,
     tagLength |-> rest.hashLength.v,
     memory |-> rest.memoryCost,
     passes |-> rest.timeCost,
     secret |-> Some(<<>>),
     associatedData |-> IF rest.associatedData.some
                        THEN rest.associatedData.v ELSE <<>>]

\* The arguments hash gives the primitive.
HashParameters(password, salt, rest) ==
    [message |-> password,
     nonce |-> salt,
     parallelism |-> rest.parallelism,
     tagLength |-> rest.hashLength.v,
     memory |-> rest.memoryCost,
     passes |-> rest.timeCost,
     secret |-> IF rest.secret.some THEN rest.secret ELSE Some(<<>>),
     associatedData |-> IF rest.associatedData.some
                        THEN rest.associatedData.v ELSE <<>>]

\* A record for serialize that states the version 0x13, as the upstream
\* library writes it.
HashRecordVersioned(rest, salt, tag) ==
    [id |-> rest.type.v,
     version |-> Some(N(19)),
     params |-> Some(<<<<KeyM, NumVal(rest.memoryCost.v)>>,
                       <<KeyT, NumVal(rest.timeCost.v)>>,
                       <<KeyP, NumVal(rest.parallelism.v)>>>>),
     salt |-> Some(salt),
     hash |-> Some(tag)]

\* A record for serialize that takes the salt from the options, where it
\* is absent unless the caller gave one.
HashRecordOptionSalt(rest, salt, tag) ==
    [id |-> rest.type.v,
     version |-> None,
     params |-> Some(<<<<KeyM, NumVal(rest.memoryCost.v)>>,
                       <<KeyT, NumVal(rest.timeCost.v)>>,
                       <<KeyP, NumVal(rest.parallelism.v)>>>>
                     \o (IF rest.associatedData.some
                            /\ Len(rest.associatedData.v) > 0
                         THEN <<<<KeyData, BufVal(rest.associatedData.v)>>>>
                         ELSE <<>>)),
     salt |-> rest.salt,
     hash |-> Some(tag)]

\* The record hash gives serialize: no version, data only when not empty.
HashRecord(rest, salt, tag) ==
    LET data == IF rest.associatedData.some THEN rest.associatedData.v ELSE <<>>
    IN  [id |-> rest.type.v,
         version |-> None,
         params |-> Some(<<<<KeyM, NumVal(rest.memoryCost.v)>>,
                           <<KeyT, NumVal(rest.timeCost.v)>>,
                           <<KeyP, NumVal(rest.parallelism.v)>>>>
                         \o (IF Len(data) > 0
                             THEN <<<<KeyData, BufVal(data)>>>> ELSE <<>>)),
         salt |-> Some(salt),
         hash |-> Some(tag)]

\* What hash returns once the primitive has answered.
HashReturn(rest, salt, out) ==
    IF ~out.ok THEN Error("PrimitiveFailure")
    ELSE IF rest.raw.some /\ rest.raw.v THEN Bytes(out.tag)
    ELSE String(Serialize(HashRecord(rest, salt, out.tag)))

\* ------------------------------------------------ needsRehash (303-322)

\* Unary plus on a parameter value: None is NaN.
ToNumber(val) ==
    IF ~val.some THEN None
    ELSE IF val.v.k = "num" THEN Some(val.v.n)
    ELSE IF val.v.k = "str" /\ Len(val.v.s) > 0
            /\ \A i \in 1..Len(val.v.s) : IsDigit(val.v.s[i])
         THEN Some(ParseDecimal(val.v.s))
    ELSE None

\* a !== b on numbers: NaN differs from everything.
StrictNotEqual(a, b) == ~a.some \/ ~b.some \/ a.v # b.v

\* if (v): undefined and 0 are falsy.
Truthy(version) == version.some /\ version.v # N(0)

\* params = {} when the record has none.
ParamsOf(parsed) == IF parsed.params.some THEN parsed.params.v ELSE <<>>

\* A comparison of the memory cost alone.
NeedsRehashMemoryOnly(parsed, options) ==
    IF ~parsed.ok THEN Error("TypeError")
    ELSE IF Truthy(parsed.version) THEN Bool(TRUE)
    ELSE Bool(StrictNotEqual(ToNumber(ParamGet(ParamsOf(parsed), KeyM)),
                             Overlay(defaults, options).memoryCost))

NeedsRehashReturn(parsed, options) ==
    LET target == Overlay(defaults, options)
        params == ParamsOf(parsed)
    IN  IF ~parsed.ok THEN Error("TypeError")
        ELSE IF Truthy(parsed.version) THEN Bool(TRUE)
        ELSE Bool(\/ StrictNotEqual(ToNumber(ParamGet(params, KeyM)),
                                    target.memoryCost)
                  \/ StrictNotEqual(ToNumber(ParamGet(params, KeyT)),
                                    target.timeCost)
                  \/ StrictNotEqual(ToNumber(ParamGet(params, KeyP)),
                                    target.parallelism))

\* ----------------------------------------------------- verify (330-356)

\* if (!hash || !salt || !isArgon2Type(id)) return false
VerifyRejects(parsed) ==
    ~parsed.hash.some \/ ~parsed.salt.some \/ ~isArgon2Type(parsed.id)

\* A cost parameter as the primitive receives it: a number, or a value
\* that is no number (undefined, a string).
CostOf(val) == IF val.some /\ val.v.k = "num" THEN Some(val.v.n) ELSE None

\* data = '' when the parameter block has none.
DataOf(params) ==
    LET d == ParamGet(params, KeyData)
    IN  IF d.some THEN d.v.s ELSE <<>>

\* The arguments of the primitive with the costs and the tag length of
\* hash's defaults in place of the digest's.
VerifyParametersFromDefaults(parsed, password, options) ==
    [message |-> password,
     nonce |-> parsed.salt.v,
     parallelism |-> defaults.parallelism,
     tagLength |-> defaults.hashLength.v,
     memory |-> defaults.memoryCost,
     passes |-> defaults.timeCost,
     secret |-> options.secret,
     associatedData |-> FromBase64(DataOf(ParamsOf(parsed)))]

\* The arguments of the primitive with the digest's data left out.
VerifyParametersWithoutData(parsed, password, options) ==
    [message |-> password,
     nonce |-> parsed.salt.v,
     parallelism |-> CostOf(ParamGet(ParamsOf(parsed), KeyP)),
     tagLength |-> N(Len(parsed.hash.v)),
     memory |-> CostOf(ParamGet(ParamsOf(parsed), KeyM)),
     passes |-> CostOf(ParamGet(ParamsOf(parsed), KeyT)),
     secret |-> options.secret,
     associatedData |-> <<>>]

\* The arguments verify gives the primitive.
VerifyParameters(parsed, password, options) ==
    LET params == ParamsOf(parsed)
    IN  [message |-> password,
         nonce |-> parsed.salt.v,
         parallelism |-> CostOf(ParamGet(params, KeyP)),
         tagLength |-> N(Len(parsed.hash.v)),
         memory |-> CostOf(ParamGet(params, KeyM)),
         passes |-> CostOf(ParamGet(params, KeyT)),
         secret |-> options.secret,
         associatedData |-> FromBase64(DataOf(params))]

\* What verify returns once the primitive has answered.
VerifyReturn(out, hash) ==
    IF ~out.ok THEN Error("PrimitiveFailure")
    ELSE IF ~TimingSafeEqual(out.tag, hash).ok THEN Error("RangeError")
    ELSE Bool(TimingSafeEqual(out.tag, hash).equal)

\* -------------------------------------------------------------- inputs

\* 'p\0w' and 'p\0wx'
Passwords == {<<112, 0, 119>>, <<112, 0, 119, 120>>}

\* Buffer.alloc(16, 'salt')
PinnedSalt ==
    AsTuple([i \in 1..16 |-> <<115, 97, 108, 116>>[((i - 1) % 4) + 1]])

\* Buffer.alloc(16, 'ad')
AssociatedData == AsTuple([i \in 1..16 |-> <<97, 100>>[((i - 1) % 2) + 1]])

\* Buffer.alloc(16, 'secret')
Secret ==
    AsTuple([i \in 1..16 |-> <<115, 101, 99, 114, 101, 116>>[((i - 1) % 6) + 1]])

\* The seeds the random source draws from.
Seeds == {3, 11}

OptionSets ==
    {NoOptions,
     [NoOptions EXCEPT !.salt = Some(PinnedSalt), !.secret = Some(Secret)],
     [NoOptions EXCEPT !.salt = Some(PinnedSalt),
                       !.associatedData = Some(AssociatedData),
                       !.type = Some(Argon2i),
                       !.memoryCost = Some(N(32768)),
                       !.hashLength = Some(N(4))],
     [NoOptions EXCEPT !.timeCost = Some(N(2)), !.parallelism = Some(N(2)),
                       !.type = Some(Argon2d)],
     [NoOptions EXCEPT !.salt = Some(PinnedSalt), !.raw = Some(TRUE)],
     [NoOptions EXCEPT !.salt = Some(PinnedSalt),
                       !.timeCost = Some(MaxUint32),
                       !.parallelism = Some(MaxUint24)],
     [NoOptions EXCEPT !.timeCost = Some(MaxSafeInteger)],
     [NoOptions EXCEPT !.salt = Some(PinnedSalt),
                       !.hashLength = Some(Num(256, 0))],
     [NoOptions EXCEPT !.memoryCost = Some(MaxSafeInteger)],
     [NoOptions EXCEPT !.salt = Some(PinnedSalt),
                       !.parallelism = Some(Num(1, 0))]}

\* The options of verify: with and without the secret.
VerifyOptions == {NoOptions, [NoOptions EXCEPT !.secret = Some(Secret)]}

\* The target parameters given to needsRehash.
TargetSets ==
    {NoOptions,
     [NoOptions EXCEPT !.memoryCost = Some(N(32768))],
     [NoOptions EXCEPT !.timeCost = Some(N(2)), !.parallelism = Some(N(2))]}

\* '$2a$12$R9h/cIPz0gi.URNNX3kh2OPST9/PgBkqquzi.Ss7KIUgO2t0jWMUW'
BcryptDigest ==
    <<"$", "2", "a", "$", "1", "2", "$", "R", "9", "h", "/", "c", "I", "P",
      "z", "0", "g", "i", ".", "U", "R", "N", "N", "X", "3", "k", "h", "2",
      "O", "P", "S", "T", "9", "/", "P", "g", "B", "k", "q", "q", "u", "z",
      "i", ".", "S", "s", "7", "K", "I", "U", "g", "O", "2", "t", "0", "j",
      "W", "M", "U", "W">>

\* A recognised id with salt and hash and no parameter block.
NoParamsDigest ==
    <<"$", "a", "r", "g", "o", "n", "2", "i", "d", "$", "c", "2", "F", "s",
      "d", "H", "N", "h", "b", "H", "R", "z", "Y", "W", "x", "0", "c", "2",
      "F", "s", "d", "A", "$", "a", "G", "F", "z", "a", "A">>

\* A parameter block and a salt, no hash.
NoHashDigest ==
    <<"$", "a", "r", "g", "o", "n", "2", "i", "d", "$", "m", "=", "6", "5",
      "5", "3", "6", ",", "t", "=", "3", ",", "p", "=", "4", "$", "c", "2",
      "F", "s", "d", "H", "N", "h", "b", "H", "R", "z", "Y", "W", "x", "0",
      "c", "2", "F", "s", "d", "A">>

\* Not a PHC string: no leading '$'.
NotPhcDigest ==
    <<"a", "r", "g", "o", "n", "2", "i", "d", ":", "m", "=", "6", "5", "5",
      "3", "6">>

\* A digest of the upstream library, which writes the version 0x13.
VersionedDigest ==
    <<"$", "a", "r", "g", "o", "n", "2", "i", "d", "$", "v", "=", "1", "9",
      "$", "m", "=", "6", "5", "5", "3", "6", ",", "t", "=", "3", ",", "p",
      "=", "4", "$", "c", "2", "F", "s", "d", "H", "N", "h", "b", "H", "R",
      "z", "Y", "W", "x", "0", "c", "2", "F", "s", "d", "A", "$", "a", "G",
      "F", "z", "a", "A">>

\* A digest whose version marker is v=0.
VersionZeroDigest ==
    <<"$", "a", "r", "g", "o", "n", "2", "i", "$", "v", "=", "0", "$", "m",
      "=", "6", "5", "5", "3", "6", ",", "t", "=", "3", ",", "p", "=", "4",
      "$", "c", "2", "F", "s", "d", "H", "N", "h", "b", "H", "R", "z", "Y",
      "W", "x", "0", "c", "2", "F", "s", "d", "A", "$", "a", "G", "F", "z",
      "a", "A">>

CraftedDigests ==
    {BcryptDigest, NoParamsDigest, NoHashDigest, NotPhcDigest,
     VersionedDigest, VersionZeroDigest}


\* ---------------------------------------------------------------- state

\* The calls started so far, in the order they were started.  Each holds
\* its arguments, the locals it keeps across its awaits, what it has asked
\* of the random source and of the primitive, and its result.
VARIABLE calls

vars == <<calls>>

Call(op, password, options, digest) ==
    [op |-> op, pc |-> "done", password |-> password, options |-> options,
     digest |-> digest, salt |-> None, algorithm |-> <<>>,
     parameters |-> NoParameters, expected |-> <<>>, rnd |-> None,
     rngRequests |-> <<>>, primitiveCalls |-> 0, result |-> Pending]

Init == calls = <<>>

\* The digests hash has returned so far.
Returned ==
    {calls[i].result.s : i \in {j \in 1..Len(calls) :
                                  calls[j].op = "hash"
                                  /\ calls[j].result.kind = "string"}}

\* A hash that asks the random source for a salt whether or not the caller
\* gave one.
HashBeginDrawingSalt(password, options) ==
    IF Validate(Overlay(defaults, options)) # ""
    THEN [Call("hash", password, options, <<>>) EXCEPT
             !.result = Error(Validate(Overlay(defaults, options)))]
    ELSE [Call("hash", password, options, <<>>) EXCEPT
             !.pc = "awaitSalt", !.rngRequests = <<SaltLength>>]

\* hash up to its first await: validation, then the request for a salt or,
\* with a salt given, the call of the primitive.
HashBegin(password, options) ==
    LET rest == Overlay(defaults, options)
        call == Call("hash", password, options, <<>>)
    IN  IF Validate(rest) # "" THEN [call EXCEPT !.result = Error(Validate(rest))]
        ELSE IF rest.salt.some
        THEN [call EXCEPT !.pc = "awaitPrimitive",
                          !.salt = rest.salt,
                          !.algorithm = rest.type.v,
                          !.parameters = HashParameters(password, rest.salt.v, rest),
                          !.primitiveCalls = 1]
        ELSE [call EXCEPT !.pc = "awaitSalt", !.rngRequests = <<SaltLength>>]

\* A hash that keeps its salt in a variable of the module: on resuming it
\* finds there the salt of the last call that set one.
HashResumeSharedSalt(cs, c, bytes) ==
    LET rest == Overlay(defaults, cs[c].options)
        set == {d \in 1..Len(cs) : d # c /\ cs[d].salt.some}
        salt == IF set = {} THEN bytes
                ELSE cs[CHOOSE d \in set : \A e \in set : e <= d].salt.v
    IN  [cs[c] EXCEPT !.pc = "awaitPrimitive",
                      !.salt = Some(salt),
                      !.algorithm = rest.type.v,
                      !.parameters = HashParameters(cs[c].password, salt, rest),
                      !.primitiveCalls = 1]

\* hash from the salt's arrival to the call of the primitive.
HashResume(cs, c, bytes) ==
    LET rest == Overlay(defaults, cs[c].options)
    IN  [cs[c] EXCEPT !.pc = "awaitPrimitive",
                      !.salt = Some(bytes),
                      !.algorithm = rest.type.v,
                      !.parameters = HashParameters(cs[c].password, bytes, rest),
                      !.primitiveCalls = 1]

\* hash from the primitive's answer to its return.
HashEnd(call) ==
    [call EXCEPT !.pc = "done",
                 !.result = HashReturn(Overlay(defaults, call.options),
                                       call.salt.v,
                                       Argon2(call.algorithm, call.parameters))]

\* verify up to its await: the parse, the checks and the call of the
\* primitive.
VerifyBegin(digest, password, options) ==
    LET parsed == Deserialize(digest)
        call == Call("verify", password, options, digest)
    IN  IF ~parsed.ok THEN [call EXCEPT !.result = Error("TypeError")]
        ELSE IF VerifyRejects(parsed) THEN [call EXCEPT !.result = Bool(FALSE)]
        ELSE [call EXCEPT !.pc = "awaitPrimitive",
                          !.salt = parsed.salt,
                          !.algorithm = parsed.id,
                          !.parameters = VerifyParameters(parsed, password, options),
                          !.expected = parsed.hash.v,
                          !.primitiveCalls = 1]

\* verify from the primitive's answer to its return.
VerifyEnd(call) ==
    [call EXCEPT !.pc = "done",
                 !.result = VerifyReturn(Argon2(call.algorithm, call.parameters),
                                         call.expected)]

\* needsRehash, which never awaits.
NeedsRehashCall(digest, options) ==
    [Call("needsRehash", <<>>, options, digest) EXCEPT
        !.result = NeedsRehashReturn(Deserialize(digest), options)]

\* -------------------------------------------------------------- actions

HashStart(limit, password, options) ==
    /\ Len(calls) < limit
    /\ calls' = Append(calls, HashBegin(password, options))

HashSaltDone(c, seed) ==
    /\ calls[c].op = "hash" /\ calls[c].pc = "awaitSalt"
    /\ LET bytes == RandomBytes(calls[c].rngRequests[1], seed)
       IN  calls' = [calls EXCEPT ![c] = [HashResume(calls, c, bytes)
                                            EXCEPT !.rnd = Some(bytes)]]

HashSaltFailed(c) ==
    /\ calls[c].op = "hash" /\ calls[c].pc = "awaitSalt"
    /\ calls' = [calls EXCEPT ![c].pc = "done",
                              ![c].result = Error("EntropyUnavailable")]

HashPrimitiveDone(c) ==
    /\ calls[c].op = "hash" /\ calls[c].pc = "awaitPrimitive"
    /\ calls' = [calls EXCEPT ![c] = HashEnd(calls[c])]

VerifyStart(limit, digest, password, options) ==
    /\ Len(calls) < limit
    /\ calls' = Append(calls, VerifyBegin(digest, password, options))

VerifyPrimitiveDone(c) ==
    /\ calls[c].op = "verify" /\ calls[c].pc = "awaitPrimitive"
    /\ calls' = [calls EXCEPT ![c] = VerifyEnd(calls[c])]

NeedsRehash(limit, digest, options) ==
    /\ Len(calls) < limit
    /\ calls' = Append(calls, NeedsRehashCall(digest, options))

\* The steps of a workload: at most limit calls, their arguments drawn from
\* the given sets, the digests from those hash has returned and the given
\* strings of other provenance.
NextOver(limit, passwords, optionSets, crafted, verifyOptions, targetSets) ==
    \/ \E password \in passwords, options \in optionSets :
          HashStart(limit, password, options)
    \/ \E c \in 1..Len(calls), seed \in Seeds : HashSaltDone(c, seed)
    \/ \E c \in 1..Len(calls) : HashSaltFailed(c)
    \/ \E c \in 1..Len(calls) : HashPrimitiveDone(c)
    \/ \E digest \in crafted \cup Returned, password \in passwords,
          options \in verifyOptions :
          VerifyStart(limit, digest, password, options)
    \/ \E c \in 1..Len(calls) : VerifyPrimitiveDone(c)
    \/ \E digest \in crafted \cup Returned, options \in targetSets :
          NeedsRehash(limit, digest, options)

\* Any two calls over the whole of the inputs.
Next ==
    NextOver(MaxCalls, Passwords, OptionSets, CraftedDigests, VerifyOptions,
             TargetSets)

Spec == Init /\ [][Next]_vars

\* Three calls over a few inputs: one password, a hash that draws its salt,
\* two with the salt pinned (one raw), one foreign digest.
NextThree ==
    NextOver(MaxCallsThree, {<<112, 0, 119>>},
             {NoOptions,
              [NoOptions EXCEPT !.salt = Some(PinnedSalt), !.secret = Some(Secret)],
              [NoOptions EXCEPT !.salt = Some(PinnedSalt), !.raw = Some(TRUE)]},
             {BcryptDigest}, {[NoOptions EXCEPT !.secret = Some(Secret)]},
             {NoOptions})

SpecThree == Init /\ [][NextThree]_vars

\* ---------------------------------------------------------- properties

CallIds == 1..Len(calls)

IsDone(c) == calls[c].pc = "done"

\* The hash calls that returned the digest given to call c.
Producers(c) ==
    {h \in CallIds : calls[h].op = "hash"
                     /\ calls[h].result.kind = "string"
                     /\ calls[h].result.s = calls[c].digest}

\* An option of a call, or the stated default when the caller omits it.
Effective(option, default) == IF option.some THEN option.v ELSE N(default)

\* A cost parameter as the digest states it: a number, or nothing.
Stated(parsed, key) ==
    LET val == ParamGet(IF parsed.params.some THEN parsed.params.v ELSE <<>>, key)
    IN  IF val.some /\ val.v.k = "num" THEN Some(val.v.n) ELSE None

\* C1: a verify of a digest that hash returned, given the secret hash was
\* given (or none when hash had none), returns true when the password is
\* the one hashed and false when it is another.
RoundTrip ==
    \A v \in CallIds :
        calls[v].op = "verify" /\ IsDone(v) =>
            \A h \in Producers(v) :
                calls[v].options.secret = calls[h].options.secret =>
                    calls[v].result = Bool(calls[v].password = calls[h].password)

\* A digest of argon2i with associated data and a short tag verifies.
RoundTripWitness ==
    \E v \in CallIds, h \in CallIds :
        /\ calls[v].op = "verify" /\ IsDone(v) /\ h \in Producers(v)
        /\ calls[h].options.type = Some(Argon2i)
        /\ calls[h].options.associatedData = Some(AssociatedData)
        /\ calls[v].password = calls[h].password
        /\ 0 \in {calls[v].password[i] : i \in 1..Len(calls[v].password)}
        /\ calls[v].result = Bool(TRUE)

\* The fields of a parsed digest hold the given bytes nowhere.
CarriesNot(parsed, bytes) ==
    /\ parsed.salt # Some(bytes)
    /\ parsed.hash # Some(bytes)
    /\ \A i \in 1..Len(parsed.params.v) :
          /\ parsed.params.v[i][1] \in {KeyM, KeyT, KeyP, KeyData}
          /\ parsed.params.v[i][2].k = "str" =>
                FromBase64(parsed.params.v[i][2].s) # bytes

\* C2: a digest hashed with a secret that is not empty verifies, for the
\* password hashed, with that secret and fails without a secret; and no
\* field of the digest holds the secret.
SecretBinding ==
    /\ \A v \in CallIds :
          calls[v].op = "verify" /\ IsDone(v) =>
              \A h \in Producers(v) :
                  /\ calls[h].options.secret.some
                  /\ Len(calls[h].options.secret.v) > 0
                  /\ calls[v].password = calls[h].password
                  => /\ calls[v].options.secret = calls[h].options.secret
                          => calls[v].result = Bool(TRUE)
                     /\ ~calls[v].options.secret.some
                          => calls[v].result = Bool(FALSE)
    /\ \A h \in CallIds :
          /\ calls[h].op = "hash" /\ calls[h].result.kind = "string"
          /\ calls[h].options.secret.some
          => /\ Deserialize(calls[h].result.s).ok
             /\ Deserialize(calls[h].result.s).params.some
             /\ CarriesNot(Deserialize(calls[h].result.s),
                           calls[h].options.secret.v)

\* The right password without the secret is turned down.
SecretBindingWitness ==
    \E v \in CallIds, h \in CallIds :
        /\ calls[v].op = "verify" /\ IsDone(v) /\ h \in Producers(v)
        /\ calls[h].options.secret = Some(Secret)
        /\ calls[v].options.secret = None
        /\ calls[v].password = calls[h].password
        /\ calls[v].result = Bool(FALSE)

\* A digest the codec cannot parse, or whose record lacks the salt, the
\* hash or one of m, t, p.
Malformed(digest) ==
    LET parsed == Deserialize(digest)
    IN  \/ ~parsed.ok
        \/ ~parsed.salt.some
        \/ ~parsed.hash.some
        \/ \E key \in {KeyM, KeyT, KeyP} : ~Stated(parsed, key).some

\* C3: a verify of a malformed digest ends with false and never with an
\* error.
VerifyNeverRaises ==
    \A v \in CallIds :
        calls[v].op = "verify" /\ Malformed(calls[v].digest) =>
            /\ calls[v].result.kind # "error"
            /\ IsDone(v) => calls[v].result = Bool(FALSE)

\* C4: a verify of a parsed digest whose id is none of argon2i, argon2d,
\* argon2id, or that has no salt or no hash, has returned false by the end
\* of its first step, without a call of the primitive.
RejectsForeign ==
    \A v \in CallIds :
        LET parsed == Deserialize(calls[v].digest)
        IN  /\ calls[v].op = "verify"
            /\ parsed.ok
            /\ \/ parsed.id \notin {Argon2i, Argon2d, Argon2id}
               \/ ~parsed.salt.some
               \/ ~parsed.hash.some
            => /\ IsDone(v)
               /\ calls[v].result = Bool(FALSE)
               /\ calls[v].primitiveCalls = 0

\* The bcrypt string is turned down.
RejectsForeignWitness ==
    \E v \in CallIds :
        /\ calls[v].op = "verify" /\ calls[v].digest = BcryptDigest
        /\ calls[v].result = Bool(FALSE) /\ calls[v].primitiveCalls = 0

\* C5: a hash whose effective hash length, memory cost or time cost is
\* above 2^32-1, or whose parallelism is above 2^24-1, has failed by the end
\* of its first step with the error of a bound it breaks, without a request
\* to the random source and without a call of the primitive.
RangeRejected ==
    \A c \in CallIds :
        LET o == calls[c].options
            broken ==
                (IF NumGT(Effective(o.hashLength, 32), Num(255, 16777215))
                 THEN {"Hash length is too large"} ELSE {})
                \cup (IF NumGT(Effective(o.memoryCost, 65536), Num(255, 16777215))
                      THEN {"Memory cost is too large"} ELSE {})
                \cup (IF NumGT(Effective(o.timeCost, 3), Num(255, 16777215))
                      THEN {"Time cost is too large"} ELSE {})
                \cup (IF NumGT(Effective(o.parallelism, 4), Num(0, 16777215))
                      THEN {"Parallelism is too large"} ELSE {})
        IN  calls[c].op = "hash" /\ broken # {} =>
                /\ IsDone(c)
                /\ calls[c].result.kind = "error"
                /\ calls[c].result.err \in broken
                /\ calls[c].rngRequests = <<>>
                /\ calls[c].rnd = None
                /\ calls[c].primitiveCalls = 0

\* A time cost of 2^53-1 with no salt given: no salt is drawn.
RangeRejectedWitness ==
    \E c \in CallIds :
        /\ calls[c].op = "hash"
        /\ calls[c].options.timeCost = Some(MaxSafeInteger)
        /\ calls[c].options.salt = None
        /\ calls[c].result = Error("Time cost is too large")
        /\ calls[c].rngRequests = <<>>

\* Some of m, t, p of the digest is not the target's.
CostsDiffer(parsed, target) ==
    \/ Stated(parsed, KeyM) # Some(Effective(target.memoryCost, 65536))
    \/ Stated(parsed, KeyT) # Some(Effective(target.timeCost, 3))
    \/ Stated(parsed, KeyP) # Some(Effective(target.parallelism, 4))

\* C6: needsRehash of a parsed digest without a version marker returns
\* whether some of the digest's m, t, p differs from the target's (65536,
\* 3, 4 where the target omits one), whatever the digest's id, salt, hash
\* and data, and calls neither the primitive nor the random source.
RehashComparesCosts ==
    \A c \in CallIds :
        LET parsed == Deserialize(calls[c].digest)
        IN  /\ calls[c].op = "needsRehash"
            /\ parsed.ok
            /\ ~parsed.version.some
            => /\ IsDone(c)
               /\ calls[c].result = Bool(CostsDiffer(parsed, calls[c].options))
               /\ calls[c].primitiveCalls = 0
               /\ calls[c].rngRequests = <<>>

\* A digest of argon2i with data and m = 32768 needs no rehash for that m.
RehashComparesCostsWitness ==
    \E c \in CallIds :
        /\ calls[c].op = "needsRehash"
        /\ calls[c].options.memoryCost = Some(N(32768))
        /\ Deserialize(calls[c].digest).id = Argon2i
        /\ ParamGet(Deserialize(calls[c].digest).params.v, KeyData).some
        /\ calls[c].result = Bool(FALSE)

\* C7: needsRehash of a parsed digest with a version marker returns true.
VersionMeansRehash ==
    \A c \in CallIds :
        /\ calls[c].op = "needsRehash"
        /\ Deserialize(calls[c].digest).ok
        /\ Deserialize(calls[c].digest).version.some
        => calls[c].result = Bool(TRUE)

\* The effective m, t, p of two option sets are the same.
SameCosts(a, b) ==
    /\ Effective(a.memoryCost, 65536) = Effective(b.memoryCost, 65536)
    /\ Effective(a.timeCost, 3) = Effective(b.timeCost, 3)
    /\ Effective(a.parallelism, 4) = Effective(b.parallelism, 4)

\* C8: a digest that hash returned has no version marker and states the
\* effective m, t, p of the hash; needsRehash of it is false for a target
\* of the same effective m, t, p and true for any other.
RehashRoundTrip ==
    \A c \in CallIds :
        calls[c].op = "needsRehash" =>
            \A h \in Producers(c) :
                LET parsed == Deserialize(calls[c].digest)
                    o == calls[h].options
                IN  /\ parsed.ok
                    /\ ~parsed.version.some
                    /\ Stated(parsed, KeyM) = Some(Effective(o.memoryCost, 65536))
                    /\ Stated(parsed, KeyT) = Some(Effective(o.timeCost, 3))
                    /\ Stated(parsed, KeyP) = Some(Effective(o.parallelism, 4))
                    /\ calls[c].result = Bool(~SameCosts(o, calls[c].options))

\* hash(pw, {memoryCost: 2^15}) needs a rehash under the default target.
RehashRoundTripWitness ==
    \E c \in CallIds, h \in CallIds :
        /\ calls[c].op = "needsRehash" /\ h \in Producers(c)
        /\ calls[h].options.memoryCost = Some(N(32768))
        /\ calls[c].options = NoOptions
        /\ calls[c].result = Bool(TRUE)

\* C9: two hash calls of the same password and the same options, a salt
\* among them, return the same, whatever else was called.
PinnedSaltDeterminism ==
    \A i \in CallIds, j \in CallIds :
        /\ calls[i].op = "hash" /\ calls[j].op = "hash"
        /\ IsDone(i) /\ IsDone(j)
        /\ calls[i].password = calls[j].password
        /\ calls[i].options = calls[j].options
        /\ calls[i].options.salt.some
        => calls[i].result = calls[j].result

\* Two such calls with a hash that drew its salt between them.
PinnedSaltDeterminismWitness ==
    /\ Len(calls) = 3
    /\ \A c \in 1..3 : calls[c].op = "hash" /\ IsDone(c)
    /\ calls[1].password = calls[3].password
    /\ calls[1].options = calls[3].options
    /\ calls[1].options.salt.some
    /\ calls[2].rnd.some
    /\ calls[1].result.kind = "string"
    /\ calls[1].result = calls[3].result

\* A call's first step, from its arguments alone.
First(call) ==
    IF call.op = "hash" THEN HashBegin(call.password, call.options)
    ELSE IF call.op = "verify"
    THEN VerifyBegin(call.digest, call.password, call.options)
    ELSE NeedsRehashCall(call.digest, call.options)

\* What a call in flight can become at its next step when no other call
\* exists.
Alone(call) ==
    IF call.op = "hash" /\ call.pc = "awaitSalt"
    THEN {[HashResume(<<call>>, 1, RandomBytes(16, seed))
             EXCEPT !.rnd = Some(RandomBytes(16, seed))] : seed \in Seeds}
         \cup {[call EXCEPT !.pc = "done",
                            !.result = Error("EntropyUnavailable")]}
    ELSE IF call.op = "hash" /\ call.pc = "awaitPrimitive"
    THEN {HashEnd(call)}
    ELSE IF call.op = "verify" /\ call.pc = "awaitPrimitive"
    THEN {VerifyEnd(call)}
    ELSE {}

\* The result of a call run alone on its arguments, with the random bytes
\* it drew.
SoloResult(call) ==
    LET first == First(call)
    IN  IF first.pc = "done" THEN first.result
        ELSE IF first.pc = "awaitSalt"
        THEN IF call.rnd.some
             THEN HashEnd(HashResume(<<first>>, 1, call.rnd.v)).result
             ELSE Error("EntropyUnavailable")
        ELSE IF call.op = "hash" THEN HashEnd(first).result
        ELSE VerifyEnd(first).result

\* Every call that has returned has the result of its run alone.
SoloResults ==
    \A c \in CallIds : IsDone(c) => calls[c].result = SoloResult(calls[c])

\* A step starts one call from its arguments alone, or takes one call on
\* as if it were alone, and leaves every other call as it was.
IsolatedStep ==
    /\ Len(calls') >= Len(calls)
    /\ \A c \in 1..Len(calls) :
          \/ calls'[c] = calls[c]
          \/ /\ calls'[c] \in Alone(calls[c])
             /\ Len(calls') = Len(calls)
             /\ \A d \in 1..Len(calls) : d # c => calls'[d] = calls[d]
    /\ \A c \in (Len(calls) + 1)..Len(calls') : calls'[c] = First(calls'[c])

\* C10: in every interleaving, each call's result is that of its run alone
\* on the same arguments and random bytes, and each step reads and writes
\* one call only.
NonInterference == []SoloResults /\ [][IsolatedStep]_vars

\* Three calls overlap: a hash awaits the primitive while a later hash,
\* with another salt, has returned and a verify of its digest is in flight.
NonInterferenceWitness ==
    /\ Len(calls) = 3
    /\ calls[1].op = "hash" /\ calls[1].pc = "awaitPrimitive"
    /\ calls[1].rnd.some
    /\ calls[2].op = "hash" /\ IsDone(2)
    /\ calls[2].rnd.some /\ calls[2].rnd # calls[1].rnd
    /\ calls[3].op = "verify" /\ calls[3].pc = "awaitPrimitive"
    /\ calls[3].digest = calls[2].result.s

\* The four bounds hold of the effective options.
InRange(o) ==
    /\ ~NumGT(Effective(o.hashLength, 32), Num(255, 16777215))
    /\ ~NumGT(Effective(o.memoryCost, 65536), Num(255, 16777215))
    /\ ~NumGT(Effective(o.timeCost, 3), Num(255, 16777215))
    /\ ~NumGT(Effective(o.parallelism, 4), Num(0, 16777215))

\* The salt a hash call has used so far is the given bytes, as the nonce of
\* the primitive and in the digest returned.
UsesSalt(c, bytes) ==
    /\ calls[c].primitiveCalls > 0 => calls[c].parameters.nonce = bytes
    /\ calls[c].result.kind = "string" =>
          Deserialize(calls[c].result.s).salt = Some(bytes)

\* C11: a hash given a salt asks the random source nothing and uses that
\* salt as the nonce and in the digest; a hash given none, once its options
\* are in range and not before, asks once for 16 bytes, calls the primitive
\* only after they came, and uses the bytes it drew itself and no other
\* call's.
SaltSource ==
    \A c \in CallIds :
        calls[c].op = "hash" =>
            LET o == calls[c].options
            IN  /\ o.salt.some =>
                     /\ calls[c].rngRequests = <<>>
                     /\ calls[c].rnd = None
                     /\ UsesSalt(c, o.salt.v)
                /\ ~o.salt.some /\ ~InRange(o) => calls[c].rngRequests = <<>>
                /\ ~o.salt.some /\ InRange(o) =>
                     /\ calls[c].rngRequests = <<16>>
                     /\ calls[c].primitiveCalls <= 1
                     /\ calls[c].primitiveCalls = 1 => calls[c].rnd.some
                     /\ calls[c].rnd.some => UsesSalt(c, calls[c].rnd.v)

\* Two hashes without a salt have each drawn and used their own.
SaltSourceWitness ==
    /\ Len(calls) = 2
    /\ \A c \in 1..2 :
          /\ calls[c].op = "hash" /\ calls[c].options.salt = None
          /\ calls[c].rngRequests = <<16>>
          /\ calls[c].result.kind = "string"
          /\ Deserialize(calls[c].result.s).salt = calls[c].rnd
    /\ calls[1].rnd # calls[2].rnd

\* The bytes of the data parameter of a parsed digest, none when it has no
\* such parameter.
StatedData(parsed) ==
    LET val == ParamGet(IF parsed.params.some THEN parsed.params.v ELSE <<>>,
                        KeyData)
    IN  IF val.some THEN FromBase64(val.v.s) ELSE <<>>

\* The bytes of an optional byte sequence, none when it is absent.
GivenOrEmpty(option) == IF option.some THEN option.v ELSE <<>>

\* C12: a verify of a digest with a recognised id, a salt and a hash calls
\* the primitive once, with the digest's id, m, t, p, salt and decoded data
\* (no bytes when it states none), a tag length of the length of the
\* digest's hash, and the caller's secret or no bytes; for a digest hash
\* returned these are the values that hash used and not hash's defaults;
\* and the tag compared with the digest's hash has its length.
VerifyArguments ==
    \A v \in CallIds :
        LET parsed == Deserialize(calls[v].digest)
            a == calls[v].parameters
        IN  /\ calls[v].op = "verify"
            /\ parsed.ok /\ parsed.salt.some /\ parsed.hash.some
            /\ parsed.id \in {Argon2i, Argon2d, Argon2id}
            => /\ calls[v].primitiveCalls = 1
               /\ calls[v].algorithm = parsed.id
               /\ a.message = calls[v].password
               /\ a.nonce = parsed.salt.v
               /\ a.memory = Stated(parsed, KeyM)
               /\ a.passes = Stated(parsed, KeyT)
               /\ a.parallelism = Stated(parsed, KeyP)
               /\ a.associatedData = StatedData(parsed)
               /\ a.tagLength = N(Len(parsed.hash.v))
               /\ (IF a.secret.some THEN a.secret.v ELSE <<>>)
                     = GivenOrEmpty(calls[v].options.secret)
               /\ \A h \in Producers(v) :
                     LET o == calls[h].options
                     IN  /\ calls[v].algorithm
                               = (IF o.type.some THEN o.type.v ELSE Argon2id)
                         /\ a.nonce = calls[h].parameters.nonce
                         /\ a.memory = Some(Effective(o.memoryCost, 65536))
                         /\ a.passes = Some(Effective(o.timeCost, 3))
                         /\ a.parallelism = Some(Effective(o.parallelism, 4))
                         /\ a.tagLength = Effective(o.hashLength, 32)
                         /\ a.associatedData = GivenOrEmpty(o.associatedData)
               /\ calls[v].result.err # "RangeError"
               /\ calls[v].result.kind = "boolean" =>
                     Len(Argon2(calls[v].algorithm, a).tag)
                        = Len(calls[v].expected)

\* A digest of argon2i with m = 32768, a tag of 4 bytes and data is
\* verified with those values.
VerifyArgumentsWitness ==
    \E v \in CallIds, h \in CallIds :
        /\ calls[v].op = "verify" /\ IsDone(v) /\ h \in Producers(v)
        /\ calls[v].primitiveCalls = 1
        /\ calls[v].algorithm = Argon2i
        /\ calls[v].parameters.memory = Some(N(32768))
        /\ calls[v].parameters.tagLength = N(4)
        /\ calls[v].parameters.associatedData = AssociatedData
        /\ calls[v].parameters.secret = None
        /\ calls[v].result = Bool(TRUE)

=============================================================================
